---- MODULE Spec2Model ----
(***************************************************************************)
(* ByteReader (src/src/byte_reader.rs): a std::io::Read over the least     *)
(* significant bits of the red, green and blue channels of an RgbaImage.   *)
(* One action, Read, models one whole call of ByteReader::read.  A second  *)
(* reader over an image that differs only in its alpha channel is stepped  *)
(* in lockstep with the same buffers (self-composition).                   *)
(***************************************************************************)
EXTENDS Integers, Sequences, FiniteSets, TLC

\* ------------------------------------------------------------------ bounds
MaxW == 4          \* image widths 1..MaxW
MaxH == 3          \* image heights 1..MaxH
MaxBuf == 4        \* buffer lengths 0..MaxBuf
MaxIdle == 2       \* calls that cannot make progress (empty buffer, or
                   \* reader already exhausted) that the caller still makes

\* --------------------------------------------------------- input images
\* Rgba pixels the images are built from: <<red, green, blue, alpha>>.
Palette ==
  << <<254, 2, 0, 255>>, <<1, 0, 254, 0>>, <<255, 128, 2, 1>>, <<0, 1, 3, 254>> >>

Seeds == 0 .. (Len(Palette) - 1)

Pixels(w, h) == (0 .. (w - 1)) \X (0 .. (h - 1))

SeededImage(w, h, s0, sx, sy) ==
  [p \in Pixels(w, h) |-> Palette[((s0 + sx * p[1] + sy * p[2]) % Len(Palette)) + 1]]

\* the same image with another value in the alpha channel of every pixel
MutateAlpha(img) ==
  [p \in DOMAIN img |-> <<img[p][1], img[p][2], img[p][3], 255 - img[p][4]>>]

\* contents of the caller's buffer before a call
Fills == {170}

FilledBuffer(n, f) == [i \in 1 .. n |-> f]

VARIABLES
  width, height,   \* source_image.dimensions()
  input,           \* self.input: [Pixels -> Rgba]
  x, y, c,         \* self.x, self.y, self.c
  b,               \* the caller's buffer after the last call
  ret,             \* Ok(n) of the last call
  called,          \* some call has been made
  b0,              \* the caller's buffer before the last call
  px, py, pc,      \* the cursor before the last call
  out,             \* the bytes returned so far: b[1..ret] of every call, concatenated
  requested,       \* sum of the buffer lengths so far
  positive,        \* every buffer so far was non-empty
  short,           \* some call so far returned less than its buffer length
  pshort,          \* short, before the last call
  idle,            \* calls made with an empty buffer or on an exhausted reader
  pending,         \* bits held by bit_buffer when the last call returned
  extracted,       \* bits_read of the last call
  lookups,         \* the (x, y) the last call passed to get_pixel
  panic,           \* the panic that ended the last call, or "none"
  input2, x2, y2, c2, b2, ret2   \* the reader over the alpha-mutated image

vars == <<width, height, input, x, y, c, b, ret, called, b0, px, py, pc, out,
          requested, positive, short, pshort, idle, pending, extracted, lookups,
          panic, input2, x2, y2, c2, b2, ret2>>

\* ----------------------------------------------------------- construction
\* ByteReader::of_image
of_image(image) == [input |-> image, x |-> 0, y |-> 0, c |-> 0]

\* ------------------------------------------------------ bitstream_io, std
\* BitWriter<LittleEndian>: bits of the byte under construction and their number
EmptyBitWriter == [value |-> 0, nbits |-> 0, written |-> <<>>]

\* a writer that fills the byte from its most significant bit
write_bit_BigEndian(bw, bit) ==
  LET v == 2 * bw.value + (IF bit THEN 1 ELSE 0)
  IN  IF bw.nbits + 1 = 8
      THEN [value |-> 0, nbits |-> 0, written |-> Append(bw.written, v)]
      ELSE [value |-> v, nbits |-> bw.nbits + 1, written |-> bw.written]

\* BitWriter::write_bit, LittleEndian: the first bit is the least significant
write_bit(bw, bit) ==
  LET v == bw.value + (IF bit THEN 2 ^ bw.nbits ELSE 0)
  IN  IF bw.nbits + 1 = 8
      THEN [value |-> 0, nbits |-> 0, written |-> Append(bw.written, v)]
      ELSE [value |-> v, nbits |-> bw.nbits + 1, written |-> bw.written]

byte_aligned(bw) == bw.nbits = 0

\* an alignment that drops the bits of the unfinished byte
byte_align_Discard(bw) == [value |-> 0, nbits |-> 0, written |-> bw.written]

\* BitWriter::byte_align: zero bits up to the next byte boundary
byte_align(bw) ==
  IF bw.nbits = 0 THEN bw
  ELSE [value |-> 0, nbits |-> 0, written |-> Append(bw.written, bw.value)]

\* BufWriter over &mut [u8], flushed when dropped: the written bytes replace
\* the head of the slice, as far as the slice goes
Flush(buf, written) ==
  [i \in 1 .. Len(buf) |-> IF i <= Len(written) THEN written[i] ELSE buf[i]]

\* capacity of BufWriter::new
DEFAULT_BUF_SIZE == 8192

\* BufWriter::write of one more byte: a full internal buffer is first flushed
\* to the slice of length n, which fails when the slice cannot take it
WriteFails(written, n) ==
  /\ Len(written) > 0
  /\ Len(written) % DEFAULT_BUF_SIZE = 0
  /\ Len(written) > n

\* ------------------------------------------------------------------- read
\* update_progress (both cfg variants change only the local progress)
update_progress(total_progress, progress, col, row) ==
  LET p == ((col * row * 100) \div total_progress) % 256
  IN  IF p > progress THEN p ELSE progress

\* source_image.get_pixel(x, y)
get_pixel(image, col, row) == image[<<col, row>>]

\* a sampler whose channel index is off by one, reaching the alpha channel
ExtractBit_Shifted(rgba, ch) == rgba[ch + 2] % 2

\* let bit = rgba[c] & 0x01
ExtractBit(rgba, ch) == rgba[ch + 1] % 2

\* bytes_read = (bits_read / 8) as usize
BytesOf(bits_read) == bits_read \div 8

\* a suspension that forgets the channel it stopped at
Suspend_DropChannel(s, col, row, ch) ==
  [s EXCEPT !.x = col, !.y = row, !.c = 0, !.returned = TRUE]

\* a suspension that saves the row after the one it stopped in
Suspend_NextRow(s, col, row, ch) ==
  [s EXCEPT !.x = col, !.y = row + 1, !.c = ch, !.returned = TRUE]

\* self.x = x; self.y = y; self.c = c; return Ok(bytes_read)
Suspend(s, col, row, ch) ==
  [s EXCEPT !.x = col, !.y = row, !.c = ch, !.returned = TRUE]

\* a call that takes the buffer to be one byte longer than it is
Enter_OneMore(self, w, h, buf) ==
  [input |-> self.input, x |-> self.x, y |-> self.y, c |-> self.c,
   width |-> w, height |-> h,
   bytes_to_read |-> Len(buf) + 1,
   total_progress |-> w * h,
   bit_buffer |-> EmptyBitWriter,
   progress |-> ((self.x * self.y * 100) \div (w * h)) % 256,
   bits_read |-> 0, bytes_read |-> 0, returned |-> FALSE,
   lookups |-> {}, panic |-> "none"]

\* the locals and fields of one call
Enter(self, w, h, buf) ==
  [input |-> self.input, x |-> self.x, y |-> self.y, c |-> self.c,
   width |-> w, height |-> h,
   bytes_to_read |-> Len(buf),
   total_progress |-> w * h,
   bit_buffer |-> EmptyBitWriter,
   progress |-> ((self.x * self.y * 100) \div (w * h)) % 256,
   bits_read |-> 0, bytes_read |-> 0, returned |-> FALSE,
   lookups |-> {}, panic |-> "none"]

\* the body of `for c in self.c..3`, after the early-stop check
Extract(s, rgba, col, row, ch) ==
  LET bit == ExtractBit(rgba, ch)
      bits == s.bits_read + 1
      s1 == [s EXCEPT !.bit_buffer = write_bit(s.bit_buffer, bit > 0),
                      !.bits_read = bits]
  IN  IF bits % 8 = 0 /\ WriteFails(s.bit_buffer.written, s.bytes_to_read)
      THEN [s EXCEPT !.panic = "Color c on Pixel(x, y)", !.returned = TRUE]
      ELSE IF bits % 8 = 0
      THEN [s1 EXCEPT !.bytes_read = BytesOf(bits),
                      !.progress = update_progress(s.total_progress, s.progress, col, row)]
      ELSE s1

\* A loop result is bound once (s1 \in {...}) before it is tested and passed on.
RECURSIVE ChannelLoop(_, _, _, _, _)
\* for c in self.c..3
ChannelLoop(s, rgba, col, row, ch) ==
  IF ch >= 3 \/ s.returned THEN s
  ELSE IF s.bytes_read >= s.bytes_to_read THEN Suspend(s, col, row, ch)
  ELSE CHOOSE r \in {ChannelLoop(s1, rgba, col, row, ch + 1) :
                       s1 \in {Extract(s, rgba, col, row, ch)}} : TRUE

RECURSIVE RowLoop(_, _, _)
\* for y in self.y..height
RowLoop(s, col, row) ==
  IF row >= s.height THEN s
  ELSE CHOOSE r \in
         {IF s1.returned THEN s1
          ELSE RowLoop(IF s1.c > 0 THEN [s1 EXCEPT !.c = 0] ELSE s1, col, row + 1) :
            s1 \in {ChannelLoop([s EXCEPT !.lookups = @ \cup {<<col, row>>}],
                                get_pixel(s.input, col, row), col, row, s.c)}} : TRUE

RECURSIVE ColumnLoop(_, _)
\* for x in self.x..width
ColumnLoop(s, col) ==
  IF col >= s.width THEN s
  ELSE CHOOSE r \in
         {IF s1.returned THEN s1
          ELSE ColumnLoop(IF s1.y > 0 THEN [s1 EXCEPT !.y = 0] ELSE s1, col + 1) :
            s1 \in {RowLoop(s, col, s.y)}} : TRUE

\* an end of grid that counts the padded byte
Exhaust_CountPad(s) ==
  LET bw == byte_align(s.bit_buffer)
  IN  [s EXCEPT !.x = s.width, !.bit_buffer = bw, !.bytes_read = Len(bw.written)]

\* an end of grid that does not mark the reader as exhausted
Exhaust_NoMark(s) ==
  [s EXCEPT !.bit_buffer = IF ~byte_aligned(s.bit_buffer)
                           THEN byte_align(s.bit_buffer) ELSE s.bit_buffer]

\* an end of grid that pads without asking whether the writer is aligned
Exhaust_AlwaysPad(s) ==
  [s EXCEPT !.x = s.width,
            !.bit_buffer = [value |-> 0, nbits |-> 0,
                            written |-> Append(s.bit_buffer.written, s.bit_buffer.value)]]

\* self.x = width; if !bit_buffer.byte_aligned() { bit_buffer.byte_align() }
Exhaust(s) ==
  [s EXCEPT !.x = s.width,
            !.bit_buffer = IF ~byte_aligned(s.bit_buffer)
                           THEN byte_align(s.bit_buffer) ELSE s.bit_buffer]

\* what the call leaves behind: the reader, the buffer, the count returned
Return(self, buf, s) ==
  [self |-> [input |-> self.input, x |-> s.x, y |-> s.y, c |-> s.c],
   b |-> Flush(buf, s.bit_buffer.written),
   ret |-> s.bytes_read,
   nbits |-> s.bit_buffer.nbits, bits_read |-> s.bits_read,
   lookups |-> s.lookups, panic |-> s.panic]

\* ByteReader::read(&mut self, b)
read(self, w, h, buf) ==
  CHOOSE r \in
    {Return(self, buf, IF s1.returned THEN s1 ELSE Exhaust(s1)) :
       s1 \in {ColumnLoop(s0, s0.x) : s0 \in {Enter(self, w, h, buf)}}} : TRUE

\* --------------------------------------------------------------- behaviour
Self == [input |-> input, x |-> x, y |-> y, c |-> c]
Self2 == [input |-> input2, x |-> x2, y |-> y2, c |-> c2]

Init ==
  /\ width \in 1 .. MaxW
  /\ height \in 1 .. MaxH
  /\ \E s0 \in Seeds, sx \in Seeds, sy \in Seeds :
       input = SeededImage(width, height, s0, sx, sy)
  /\ input2 = MutateAlpha(input)
  /\ x = of_image(input).x /\ y = of_image(input).y /\ c = of_image(input).c
  /\ x2 = 0 /\ y2 = 0 /\ c2 = 0
  /\ b = <<>> /\ b0 = <<>> /\ ret = 0 /\ b2 = <<>> /\ ret2 = 0
  /\ called = FALSE
  /\ px = 0 /\ py = 0 /\ pc = 0
  /\ out = <<>> /\ requested = 0 /\ positive = TRUE /\ short = FALSE /\ pshort = FALSE
  /\ idle = 0
  /\ pending = 0 /\ extracted = 0 /\ lookups = {} /\ panic = "none"

\* one call of read on a buffer of length n that holds f in every byte
Read(n, f) ==
  LET buf == FilledBuffer(n, f)
      progressing == n >= 1 /\ x < width
  IN  \E r \in {read(Self, width, height, buf)}, r2 \in {read(Self2, width, height, buf)} :
      /\ progressing \/ idle < MaxIdle
      /\ idle' = IF progressing THEN idle ELSE idle + 1
      /\ x' = r.self.x /\ y' = r.self.y /\ c' = r.self.c
      /\ b' = r.b /\ ret' = r.ret
      /\ x2' = r2.self.x /\ y2' = r2.self.y /\ c2' = r2.self.c
      /\ b2' = r2.b /\ ret2' = r2.ret
      /\ called' = TRUE
      /\ b0' = buf
      /\ px' = x /\ py' = y /\ pc' = c
      /\ out' = out \o SubSeq(r.b, 1, r.ret)
      /\ requested' = requested + n
      /\ positive' = (positive /\ n >= 1)
      /\ short' = (short \/ r.ret < n)
      /\ pshort' = short
      /\ pending' = r.nbits /\ extracted' = r.bits_read
      /\ lookups' = r.lookups /\ panic' = r.panic
      /\ UNCHANGED <<width, height, input, input2>>

Next == \E n \in 0 .. MaxBuf, f \in Fills : Read(n, f)

Spec == Init /\ [][Next]_vars

\* the caller of read_to_end: non-empty buffers, read after read
ReadNonEmpty == \E n \in 1 .. MaxBuf, f \in Fills : Read(n, f)

LiveSpec == Init /\ [][ReadNonEmpty]_vars /\ WF_vars(ReadNonEmpty)

\* ------------------------------------------------- progress, in u32
\* overflow checks are on in a debug build and off in a release build
Builds == {"debug", "release"}

\* image dimensions the progress computation is evaluated for
Dims == {0, 1, 2, 443, 515, 7000, 65536}

\* m * n > lim, without forming the product
Exceeds(m, n, lim) == m >= 1 /\ n > lim \div m

\* floor((2^32 - 1) / k) for 2 <= k <= 2^30, from 2^32 - 1 = 2 * (2^31 - 1) + 1
U32MaxDiv(k) == 2 * (2147483647 \div k) + (2 * (2147483647 % k) + 1) \div k

\* m * n does not fit in a u32 (m and n below 2^31)
MulOverflows(m, n) == m >= 2 /\ n > U32MaxDiv(m)

\* (col * row) * 100 does not fit in a u32
Times100Overflows(col, row) == Exceeds(col, row, U32MaxDiv(100))

RECURSIVE TrailingZeros(_)
TrailingZeros(n) == IF n % 2 = 1 THEN 0 ELSE 1 + TrailingZeros(n \div 2)

\* w * h is 0 in wrapping u32 arithmetic
WrapsToZero(w, h) ==
  \/ w = 0
  \/ h = 0
  \/ TrailingZeros(w) + TrailingZeros(h) >= 32

\* the panic of `let total_progress = width * height` followed by
\* `((x * y * 100) / total_progress) as u8`, or "none"
ProgressPanic(build, w, h, col, row) ==
  IF build = "debug" /\ MulOverflows(w, h)
    THEN "debug: attempt to multiply with overflow"
  ELSE IF build = "debug" /\ (MulOverflows(col, row) \/ Times100Overflows(col, row))
    THEN "debug: attempt to multiply with overflow"
  ELSE IF WrapsToZero(w, h)
    THEN build \o ": attempt to divide by zero"
  ELSE "none"

\* the scan can be indexed: 3 * w * h is below 2^31
Indexable(w, h) == ~Exceeds(w, h, 715827882)

\* number of bytes a reader of a w x h image returns
TotalBytes(w, h) == (3 * w * h) \div 8

\* a few of the bytes 1 .. TotalBytes
SomeBytes(w, h) ==
  {k \in {1, TotalBytes(w, h) \div 2, TotalBytes(w, h)} : k >= 1 /\ k <= TotalBytes(w, h)}

\* column and row of the i-th channel of the scan
ColumnOf(i, h) == i \div (3 * h)
RowOf(i, h) == (i \div 3) % h

ProgressInit ==
  /\ width \in Dims
  /\ height \in Dims
  /\ input = <<>> /\ input2 = <<>>
  /\ x = 0 /\ y = 0 /\ c = 0
  /\ x2 = 0 /\ y2 = 0 /\ c2 = 0
  /\ b = <<>> /\ b0 = <<>> /\ ret = 0 /\ b2 = <<>> /\ ret2 = 0
  /\ called = FALSE
  /\ px = 0 /\ py = 0 /\ pc = 0
  /\ out = <<>> /\ requested = 0 /\ positive = TRUE /\ short = FALSE /\ pshort = FALSE
  /\ idle = 0
  /\ pending = 0 /\ extracted = 0 /\ lookups = {} /\ panic = "none"

ProgressFrame ==
  UNCHANGED <<width, height, input, input2, x2, y2, c2, b, b0, ret, b2, ret2, px, py, pc,
              out, requested, positive, short, pshort, idle, pending>>

\* line 65 and line 73 of a read that begins after k bytes have been returned
\* (k = 0: the first read): the progress of the cursor
ProgressAtEntry(build, k) ==
  /\ panic = "none"
  /\ IF k = 0 \/ 8 * k >= 3 * width * height
       THEN /\ x' = (IF k = 0 THEN 0 ELSE width)
            /\ y' = 0 /\ c' = 0
       ELSE /\ x' = ColumnOf(8 * k, height)
            /\ y' = RowOf(8 * k, height)
            /\ c' = (8 * k) % 3
  /\ panic' = ProgressPanic(build, width, height, x', y')
  /\ called' = TRUE
  /\ extracted' = 0
  /\ lookups' = {}
  /\ ProgressFrame

\* line 94 of a read whose k-th byte overall has just been completed:
\* update_progress at the pixel of channel 8 * k - 1
ProgressAtByte(build, k) ==
  /\ panic = "none"
  /\ LET col == ColumnOf(8 * k - 1, height)
         row == RowOf(8 * k - 1, height)
     IN  /\ lookups' = {<<col, row>>}
         /\ panic' = ProgressPanic(build, width, height, col, row)
  /\ called' = TRUE
  /\ extracted' = 8
  /\ UNCHANGED <<x, y, c>>
  /\ ProgressFrame

ProgressNext ==
  \/ \E build \in Builds : ProgressAtEntry(build, 0)
  \/ \E build \in Builds :
       /\ Indexable(width, height)
       /\ \E k \in SomeBytes(width, height) : ProgressAtEntry(build, k)
  \/ \E build \in Builds :
       /\ Indexable(width, height)
       /\ \E k \in SomeBytes(width, height) : ProgressAtByte(build, k)

ProgressSpec == ProgressInit /\ [][ProgressNext]_vars

\* ------------------------------------------------------------ vocabulary
\* number of channels the scan visits
Capacity == width * height * 3

\* position of (column, row, channel) in the scan: columns outermost, rows
\* within a column, red, green, blue within a pixel
LinPos(col, row, ch) == col * height * 3 + row * 3 + ch

\* least significant bit of the i-th channel of the scan, i = 0, 1, ...
ChanLSB(i) == input[<<i \div (3 * height), (i \div 3) % height>>][(i % 3) + 1] % 2

\* channels not yet sampled when the cursor is (col, row, ch)
Remaining(col, row, ch) == IF col = width THEN 0 ELSE Capacity - LinPos(col, row, ch)

BitAt(byte, i) == (byte \div (2 ^ i)) % 2

\* the bits of a byte sequence, bit 0 of each byte first
BitsOf(bytes) ==
  [k \in 1 .. 8 * Len(bytes) |-> BitAt(bytes[((k - 1) \div 8) + 1], (k - 1) % 8)]

ScanBits(n) == [k \in 1 .. n |-> ChanLSB(k - 1)]

\* ----------------------------------------------------------------- claims
\* C1: reads with positive buffer lengths summing to K return, concatenated,
\* the bytes one read of a fresh reader with a buffer of length K returns,
\* and their counts sum to that read's count.
Resumability ==
  positive =>
    \E one \in {read(of_image(input), width, height, FilledBuffer(requested, 0))} :
      /\ out = SubSeq(one.b, 1, one.ret)
      /\ Len(out) = one.ret

Resumability_Witness ==
  /\ called /\ positive /\ ret >= 1 /\ Len(out) > ret
  /\ pc > 0 /\ requested > Len(b)

\* C2: bit i of the j-th byte returned overall is the least significant bit
\* of channel 8*j+i of the scan; the bits 0,0,0,1,0,0,1,0 give the byte 72.
OutputContent ==
  /\ \A j \in 1 .. Len(out) : \A i \in 0 .. 7 :
       BitAt(out[j], i) = ChanLSB(8 * (j - 1) + i)
  /\ (Len(out) >= 1 /\ ScanBits(8) = <<0, 0, 0, 1, 0, 0, 1, 0>>) => out[1] = 72

OutputContent_Witness ==
  /\ called /\ Len(out) >= 2 /\ Capacity >= 8
  /\ ScanBits(8) = <<0, 0, 0, 1, 0, 0, 1, 0>> /\ out[1] = 72
  /\ width >= 2 /\ height >= 2

\* C3: when reads with non-empty buffers have gone on until one returned 0,
\* the counts returned sum to floor(W * H * 3 / 8).
TotalByteCount ==
  (called /\ positive /\ ret = 0) => Len(out) = Capacity \div 8

TotalByteCount_Witness ==
  /\ called /\ positive /\ ret = 0 /\ Len(out) >= 2
  /\ Len(out) = Capacity \div 8 /\ requested > Len(out) + Len(b)

\* C4 as stated: after reading to the end, the returned bytes hold the least
\* significant bit of every channel of the scan, once, in scan order.
EveryBitReturned ==
  (called /\ positive /\ ret = 0) => BitsOf(out) = ScanBits(Capacity)

\* C4 as amended: after reading to the end, the returned bytes hold the bits
\* of the first 8 * floor(W*H*3/8) channels of the scan, once each, in scan
\* order; the W*H*3 mod 8 channels after them are in no returned byte.
WholeBytesReturned ==
  (called /\ positive /\ ret = 0) =>
    /\ BitsOf(out) = ScanBits(8 * (Capacity \div 8))
    /\ Len(BitsOf(out)) = Capacity - (Capacity % 8)

WholeBytesReturned_Witness ==
  /\ called /\ positive /\ ret = 0 /\ Len(out) >= 1
  /\ Capacity % 8 # 0
  /\ \E k \in (8 * (Capacity \div 8)) .. (Capacity - 1) : ChanLSB(k) = 1

\* C5: a read returns less than its buffer length only by exhausting the
\* grid, and then the cursor column is width; with at least 8*N channels
\* unsampled at entry it returns N.
ShortReadOnlyAtExhaustion ==
  called =>
    /\ ret < Len(b) => (x = width /\ Remaining(px, py, pc) < 8 * Len(b))
    /\ Remaining(px, py, pc) >= 8 * Len(b) => ret = Len(b)

ShortReadOnlyAtExhaustion_Witness ==
  /\ called /\ ret >= 1 /\ ret < Len(b) /\ x = width /\ px < width
  /\ LinPos(px, py, pc) > 0

\* C6 as stated: a read with a non-empty buffer returns 0 exactly when the
\* cursor column was width when the call began.
ZeroIffTerminal ==
  (called /\ Len(b) >= 1) => (ret = 0 <=> px = width)

\* C6 as amended: a read with a non-empty buffer returns 0 exactly when
\* fewer than 8 channels were unsampled when the call began (none are, once
\* the cursor column is width).
ZeroIffNoWholeByteLeft ==
  (called /\ Len(b) >= 1) =>
    /\ ret = 0 <=> Remaining(px, py, pc) < 8
    /\ px = width => ret = 0

ZeroIffNoWholeByteLeft_Witness ==
  /\ called /\ Len(b) >= 1 /\ ret = 0 /\ px < width
  /\ Remaining(px, py, pc) \in 1 .. 7 /\ Len(out) >= 1

\* C7: once a read has returned less than its buffer length, every later
\* read with a non-empty buffer returns 0.
ExhaustionIdempotence ==
  (called /\ pshort /\ Len(b) >= 1) => ret = 0

ExhaustionIdempotence_Witness ==
  /\ called /\ pshort /\ Len(b) >= 1 /\ ret = 0 /\ Len(out) >= 1

\* C8: a read that begins with the cursor column at width returns 0 and
\* leaves the cursor and every byte of the buffer as they were.
TerminalAbsorbing ==
  (called /\ px = width) =>
    /\ ret = 0
    /\ <<x, y, c>> = <<px, py, pc>>
    /\ b = b0

TerminalAbsorbing_Witness ==
  /\ called /\ px = width /\ Len(b) >= 2 /\ b[1] # 0 /\ x = width

\* C9: the reader of an image that differs only in alpha returns the same
\* counts and bytes and stops at the same cursor, call after call.
AlphaExclusion ==
  /\ <<x, y, c>> = <<x2, y2, c2>>
  /\ ret = ret2
  /\ b = b2

AlphaExclusion_Witness ==
  /\ called /\ ret >= 2 /\ ret2 = ret /\ b2 = b
  /\ \A p \in DOMAIN input :
       /\ input2[p][4] # input[p][4]
       /\ <<input2[p][1], input2[p][2], input2[p][3]>> = <<input[p][1], input[p][2], input[p][3]>>
  /\ \E p \in DOMAIN input : input[p][4] % 2 # input[p][3] % 2

\* C10: under repeated reads with non-empty buffers some read returns 0 with
\* the cursor column at width, and every such read moves the cursor on by
\* exactly 8*N channels or to column width.
ReadToEndTerminates ==
  /\ []((called /\ Len(b) >= 1) =>
          \/ x = width
          \/ LinPos(x, y, c) = LinPos(px, py, pc) + 8 * Len(b))
  /\ <>(called /\ Len(b) >= 1 /\ ret = 0 /\ x = width)

ReadToEndTerminates_Witness ==
  /\ called /\ Len(b) >= 1 /\ ret = 0 /\ x = width /\ px = width
  /\ positive /\ Len(out) >= 3

\* C11: while the cursor is not terminal its position in the scan is 8 times
\* the number of bytes returned so far, no bit is left in the writer, and a
\* call moves the cursor by exactly the bits it extracted.
CursorAccounting ==
  x < width =>
    /\ LinPos(x, y, c) = 8 * Len(out)
    /\ pending = 0
    /\ called => LinPos(x, y, c) = LinPos(px, py, pc) + extracted

CursorAccounting_Witness ==
  /\ called /\ x < width /\ c > 0 /\ y > 0 /\ pc > 0
  /\ extracted >= 16 /\ Len(out) > ret

\* C12: between calls 0 <= x <= width, 0 <= y < height and 0 <= c < 3, the
\* cursor of a new reader is (0, 0, 0), and every (x, y) a call passes to
\* get_pixel has x < width and y < height.
CursorRange ==
  /\ x \in 0 .. width /\ y \in 0 .. (height - 1) /\ c \in 0 .. 2
  /\ ~called => <<x, y, c>> = <<0, 0, 0>>
  /\ \A p \in lookups : p[1] \in 0 .. (width - 1) /\ p[2] \in 0 .. (height - 1)

CursorRange_Witness ==
  /\ called /\ x = width /\ y = 0 /\ c = 0
  /\ px < width /\ py = height - 1 /\ py > 0 /\ pc = 2
  /\ <<width - 1, height - 1>> \in lookups /\ <<px, py>> \in lookups
  /\ Cardinality(lookups) >= 3

\* C13: a call extracts a bit only while fewer than N bytes are complete, so
\* it extracts at most 8*N bits and hands the writer at most N bytes, the
\* padded byte included; no write fails and no call panics.
BufferNeverOverrun ==
  called =>
    /\ extracted <= 8 * Len(b)
    /\ (extracted + 7) \div 8 <= Len(b)
    /\ panic = "none"

BufferNeverOverrun_Witness ==
  /\ called /\ Len(b) >= 2 /\ extracted = 8 * Len(b) /\ x < width
  /\ panic = "none" /\ pc > 0

\* C14: a call that reaches the end of the grid with 1 to 7 bits beyond its
\* last complete byte sets the cursor column to width and writes, right
\* after the bytes it returns, the byte whose low bits are those bits in
\* extraction order and whose other bits are 0; the rest of the buffer stays.
EndOfGridTail ==
  (called /\ px < width /\ x = width /\ extracted % 8 # 0) =>
    /\ ret = extracted \div 8
    /\ ret < Len(b)
    /\ \A i \in 0 .. 7 :
         BitAt(b[ret + 1], i) =
           IF i < extracted % 8 THEN ChanLSB(LinPos(px, py, pc) + 8 * ret + i) ELSE 0
    /\ \A k \in (ret + 2) .. Len(b) : b[k] = b0[k]

EndOfGridTail_Witness ==
  /\ called /\ px < width /\ x = width /\ extracted % 8 \in 1 .. 7
  /\ ret >= 1 /\ Len(b) >= ret + 2
  /\ b[ret + 1] # 0 /\ b[ret + 1] # b0[ret + 1] /\ b[ret + 2] = 170

\* C15: a call with an empty buffer returns 0 and leaves the cursor where it
\* was, exhausted or not; the bytes the other calls return are those of one
\* read of their total length, wherever the empty calls fall.
EmptyRequestNoOp ==
  /\ (called /\ Len(b) = 0) => (ret = 0 /\ <<x, y, c>> = <<px, py, pc>>)
  /\ ~positive =>
       \E one \in {read(of_image(input), width, height, FilledBuffer(requested, 170))} :
         out = SubSeq(one.b, 1, one.ret)

EmptyRequestNoOp_Witness ==
  /\ called /\ ~positive /\ Len(b) = 0 /\ ret = 0
  /\ px < width /\ pc > 0 /\ py > 0 /\ Len(out) >= 1

\* C16: for every image whose width and height fit in a u32 the progress
\* (x * y * 100) / (width * height), evaluated in u32 when a read begins and
\* at each completed byte, neither overflows nor divides by zero, so that no
\* read is ended by it.
ProgressHarmless == panic = "none"

====
